---- MODULE Spec2Model ----
(***************************************************************************)
(* The acquisition pipeline of the hamamatsu package: one lima             *)
(* Acquisition session (hamamatsu/lima/camera.py) driving a dcam Stream    *)
(* (hamamatsu/dcam.py) over the native DCAM wait / transfer-info / frame   *)
(* ring primitives.                                                        *)
(*                                                                         *)
(* Two threads: the control thread (prepareAcq / startAcq / stopAcq and a  *)
(* caller of EventStream.abort) and the acquisition thread running         *)
(* Acquisition.acquire, which is the only consumer of the stream()         *)
(* generator.  The native library is the environment: it completes frames, *)
(* raises wait events and answers transfer-info queries.                   *)
(***************************************************************************)
EXTENDS Integers, Sequences, FiniteSets, TLC

\* ---------------------------------------------------------------- bounds
MaxN == 3          \* largest requested frame count / ring size
MaxWakes == 3      \* waits one session may issue
MaxTriggers == 1   \* software triggers startAcq may fire
MaxExtra == 1      \* frames a live capture completes beyond the ring size
MaxDim == 2        \* largest frame width and height given to copy_frame
MaxBytes == 5      \* largest array given to copy_frame
MaxSessions == 2   \* calls of prepareAcq on one Interface
MaxDevices == 2    \* DCAM.nb_devices
MaxOpens == 2      \* native dcamdev_open calls per device id

\* ------------------------------------------------------ program constants
CAP_FRAMEREADY == 2
CAP_STOPPED == 16

\* 0x80000000 as its two 16-bit words <<high, low>>
TIMEOUT_INFINITE == <<32768, 0>>

VARIABLES
    nb_frames,            \* Acquisition.nb_frames / Stream.nb_frames
    live,                 \* capture mode given to Device.start
    trigger_mode,         \* Acquisition.trigger_mode
    cpc,                  \* control thread position
    tpc,                  \* acquisition thread position
    stopped,              \* Acquisition.stopped
    start_event,          \* Acquisition.start_event
    prepared,             \* Acquisition.prepared
    nb_acquired_frames,   \* Acquisition.nb_acquired_frames
    status,               \* Acquisition.status
    nb_frames_triggered,  \* Acquisition.nb_frames_triggered
    last_frame_index,     \* stream(): last_frame_index
    fi,                   \* frame_stream(): loop index i
    iFrame,               \* the shared SFrame.iFrame
    nNewestFrameIndex,    \* the shared STransferInfo.nNewestFrameIndex
    eventhappened,        \* the shared SWaitStart.eventhappened
    event,                \* stream(): event
    ev_handle,            \* EventStream._handle
    ring,                 \* native: frame ring allocated
    hwait,                \* native: wait handle
    capturing,            \* native: capture running
    devCount,             \* native: frames completed since dcamcap_start
    pend,                 \* native: event bits raised and not yet returned
    aborting,             \* native: dcamwait_abort hit the wait in progress
    emitted,              \* slot index of every frame stream() yielded
    delivered,            \* <<acq_frame_nb, slot, buffer>> per newFrameReady
    wakes,                \* every event stream() received
    outcome,              \* how the last native wait ended
    err,                  \* exception that left acquire()
    stopAt,               \* frames emitted when stop() was issued
    stopInWait,           \* stop() was issued during a native wait
    abortedBy,            \* callers of dcamwait_abort so far
    gstate,               \* state of the generator stream()
    context_stack,        \* Stream.context_stack: contexts entered, in order
    calls,                \* native teardown calls made, in order
    closing,              \* progress of a repeated Stream.close()
    late,                 \* next(stream) was called after the stream closed
    pulled,               \* what that late next(stream) returned or raised
    fault,                \* native call that failed while streaming, and
                          \* the frames emitted before it
    stopFirst,            \* stop() was called before any start()
    acqs,                 \* every Acquisition one Interface has created
    ipc,                  \* position of the caller of that Interface
    cframe,               \* copy_frame: the frame argument
    cinto,                \* copy_frame: the array argument
    cret,                 \* copy_frame: how the call ended
    devs,                 \* per device id: the Device object and its handles
    wret,                 \* DCAM.__getattr__: <<high word, low word, name>> of
                          \* the value a native call returned
    wraised,              \* DCAM.__getattr__: what the wrapper raised
    sev,                  \* stream(): one event value given to the loop body
    sbranch,              \* stream(): the branch taken for that event
    es,                   \* one EventStream used by two threads: _handle,
                          \* the native handle, both positions, native calls
    dcamlib               \* DCAM: _state and the calls of close()

cfg == <<nb_frames, live, trigger_mode>>
acq == <<stopped, start_event, prepared, nb_acquired_frames, status,
         nb_frames_triggered>>
gen == <<last_frame_index, fi, iFrame, nNewestFrameIndex, eventhappened,
         event, ev_handle, gstate>>
dev == <<ring, hwait, capturing, devCount, pend, aborting>>
hist == <<emitted, delivered, wakes, outcome, err, stopAt, stopInWait,
          abortedBy>>
tear == <<context_stack, calls, closing>>
pull == <<late, pulled, fault, stopFirst>>
side == <<devs, wret, wraised, sev, sbranch, es, dcamlib>>
lib == <<acqs, ipc, cframe, cinto, cret, side>>
vars == <<cfg, cpc, tpc, acq, gen, dev, hist, tear, pull, lib>>

\* ---------------------------------------------------------- pure helpers

\* EWaitEvent as an integer bit mask
HasBit(ev, bit) == (ev \div bit) % 2 = 1

EventBits(S) ==
    (IF CAP_FRAMEREADY \in S THEN CAP_FRAMEREADY ELSE 0)
    + (IF CAP_STOPPED \in S THEN CAP_STOPPED ELSE 0)

\* EventStream.DefaultMask
DefaultMask == {CAP_FRAMEREADY, CAP_STOPPED}

\* event_stream: timeout = int(timeout * 1000), stored in the c_int32 field
\* SWaitStart.timeout: the product keeps its low 32 bits.
TimeoutField(t) ==
    LET lo == t[2] * 1000
        hi == t[1] * 1000 + (lo \div 65536)
    IN  <<hi % 65536, lo % 65536>>

\* dcamwait_start blocks without limit only for the value 0x80000000
WaitsForever(t) == t = TIMEOUT_INFINITE

\* Device._wait_start: does a failure of dcamwait_start leave the function
\* as an exception?  The bare "except: pass" swallows every one.
WaitStartRaises(how) == FALSE

\* stream(): "event is EWaitEvent.CAP_STOPPED"
IsStoppedBit(ev) == (ev \div CAP_STOPPED) % 2 = 1
IsStopped(ev) == ev = CAP_STOPPED

\* stream(): "event is EWaitEvent.CAP_FRAMEREADY"
IsFrameReady(ev) == ev = CAP_FRAMEREADY

\* stream(): "while transfer.nNewestFrameIndex > last_frame_index"
DrainMoreLate(newest, last) == newest > last + 1
DrainMoreEager(newest, last) == newest >= last
DrainMore(newest, last) == newest > last

\* stream(): "last_frame_index += 1"
LastAfterYieldSkip(last) == last + 2
LastAfterYieldStuck(last) == last
LastAfterYield(last) == last + 1

\* frame_stream(): "frame.iFrame = i"
LockIndexCursor(i, newest) == newest
LockIndexOneBased(i, newest) == i + 1
LockIndex(i, newest) == i

\* dcamcap_transferinfo: index of the newest completed slot
NewestIndex == IF devCount = 0 THEN -1 ELSE (devCount - 1) % nb_frames

\* frames one capture completes: the ring size for a snap, more when live
CaptureLimit == IF live THEN nb_frames + MaxExtra ELSE nb_frames

Ended == {"finish", "exit", "dead"}

\* Stream.__enter__: the contexts in the order they are entered
EnterOrder == <<"frame_stream", "event_stream">>

\* ExitStack.close: the context left next is the one entered last
ExitIndexFifo(stack) == 1
ExitIndex(stack) == Len(stack)

Range(q) == {q[k] : k \in DOMAIN q}

\* the stack once that context has been left
Leave(stack) ==
    [k \in 1..(Len(stack) - 1) |->
        IF k < ExitIndex(stack) THEN stack[k] ELSE stack[k + 1]]

\* FrameStream.__exit__: does a DCAMError of _buf_release leave it?  The
\* try/except logs the error and drops it.
ReleaseRaisesAll(failed) == failed
ReleaseRaises(failed) == FALSE

\* dcambuf_release refuses while the capture is busy or without a ring
ReleaseFailsAlways == TRUE
ReleaseFails == capturing \/ ~ring

\* the code that runs Stream.close: the end of the with block, or a caller
\* closing the stream once more
Closing == tpc = "exit" \/ closing = "again"

\* ------------------------------------------------------------ copy_frame

\* the members of EPixelType told apart by bytes_per_pixel and dtype
PixelTypes == {"MONO8", "MONO16", "MONO12", "RGB24", "NONE"}

\* EPixelType.bytes_per_pixel, doubled: MONO12 has 1.5 bytes per pixel
BytesPerPixel2(t) ==
    IF t = "MONO8" THEN 2
    ELSE IF t = "MONO16" THEN 4
    ELSE IF t = "MONO12" THEN 3
    ELSE IF t = "RGB24" THEN 6
    ELSE 0

\* bytes_per_pixel returns the float 1.5 for MONO12 and an int otherwise
BytesPerPixelIsFloat(t) == t = "MONO12"

\* EPixelType.dtype as the item size of the numpy type: uint8, uint16, and
\* 0 for the values 0 and None, which "if dtype" both skips
ItemSize(t) ==
    IF t = "MONO8" THEN 1
    ELSE IF t = "MONO16" THEN 2
    ELSE 0

\* bytes the frame occupies behind frame.buf
FrameBytes(f) == (f.width * f.height * BytesPerPixel2(f.type) + 1) \div 2

\* a one-dimensional byte array of n bytes the caller has filled ("old")
ByteArray(n) ==
    [given |-> TRUE, data |-> [k \in 1..n |-> "old"], itemsize |-> 1,
     shape |-> <<n>>]

\* into=None
NoArray == [given |-> FALSE, data |-> <<>>, itemsize |-> 1, shape |-> <<0>>]

\* ctypes.memmove(into.ctypes.data, frame.buf, into.nbytes): how many bytes
\* of an array of n bytes are written
MovedBytes(n, f) == n

\* the array after the memmove: bytes of the frame, then whatever memory
\* follows the frame when the array is the larger one
Moved(a, f) ==
    [a EXCEPT !.data =
        [k \in 1..Len(a.data) |->
            IF k > MovedBytes(Len(a.data), f) THEN a.data[k]
            ELSE IF k <= FrameBytes(f) THEN "new" ELSE "junk"]]

\* ------------------------------------------------------------------ Init

\* Interface.prepareAcq has just constructed the Acquisition: its thread is
\* started and the caller is about to block in wait_until_prepared.
SessionInit ==
    /\ nb_frames \in 1..MaxN
    /\ live \in BOOLEAN
    /\ trigger_mode \in {"IntTrig", "IntTrigMult"}
    /\ cpc = "prepare"
    /\ tpc = "construct"
    /\ stopped = FALSE
    /\ start_event = FALSE
    /\ prepared = FALSE
    /\ nb_acquired_frames = 0
    /\ status = "Ready"
    /\ nb_frames_triggered = 0
    /\ last_frame_index = -1
    /\ fi = 0
    /\ iFrame = -1
    /\ nNewestFrameIndex = 0
    /\ eventhappened = 0
    /\ event = 0
    /\ ev_handle = "none"
    /\ ring = FALSE
    /\ hwait = "none"
    /\ capturing = FALSE
    /\ devCount = 0
    /\ pend = {}
    /\ aborting = FALSE
    /\ emitted = <<>>
    /\ delivered = <<>>
    /\ wakes = <<>>
    /\ outcome = "none"
    /\ err = "none"
    /\ stopAt = -1
    /\ stopInWait = FALSE
    /\ abortedBy = {}
    /\ gstate = "GEN_CREATED"
    /\ context_stack = <<>>
    /\ calls = <<>>
    /\ closing = "no"
    /\ late = FALSE
    /\ pulled = "none"
    /\ fault = <<"none", 0>>
    /\ stopFirst = FALSE

\* Interface.__init__: "self.acq = None"
InterfaceIdle ==
    /\ acqs = <<>>
    /\ ipc = "idle"

\* no call of copy_frame is under way
CopyIdle ==
    /\ cframe = [width |-> 1, height |-> 1, type |-> "NONE"]
    /\ cinto = NoArray
    /\ cret = "none"

\* DCAM.__getitem__ has created no Device yet
NoDevice ==
    [alive |-> FALSE, handle |-> "none", nopen |-> 0, opens |-> 0,
     closes |-> 0, last |-> "none", caps |-> "none"]

DevicesIdle == devs = [id \in 0..(MaxDevices - 1) |-> NoDevice]

\* no native call is being checked
WrapperIdle ==
    /\ wret = <<0, 1, "dcamdev_open">>
    /\ wraised = "none"

\* no event is being dispatched on its own
DispatchIdle ==
    /\ sev = 0
    /\ sbranch = "none"

\* an EventStream with its wait handle open, no abort() or close() under way
EventStreamIdle ==
    es = [handle |-> "hwait", native |-> "open", apc |-> "idle",
          kpc |-> "idle", arg |-> "none", aborts |-> 0, closes |-> 0,
          ncalls |-> <<>>]

\* DCAM.open has initialised the library; close() was not called
LibraryIdle ==
    dcamlib = [state |-> "init", closes |-> 0, uninits |-> 0,
               last |-> "none"]

SideIdle ==
    /\ DevicesIdle /\ WrapperIdle /\ DispatchIdle
    /\ EventStreamIdle /\ LibraryIdle

Init == SessionInit /\ InterfaceIdle /\ CopyIdle /\ SideIdle

\* ------------------------------------------------- the acquisition thread

\* "with Stream(detector, nb_frames) as stream": FrameStream allocates the
\* ring, EventStream opens the wait handle, __enter__ registers both.
Construct ==
    /\ tpc = "construct"
    /\ ring' = TRUE
    /\ hwait' = "open"
    /\ ev_handle' = "open"
    /\ context_stack' = EnterOrder
    /\ tpc' = "armed"
    /\ UNCHANGED <<cfg, cpc, acq, hist>>
    /\ UNCHANGED <<calls, closing, pull, lib>>
    /\ UNCHANGED <<last_frame_index, fi, iFrame, nNewestFrameIndex,
                   eventhappened, event, gstate>>
    /\ UNCHANGED <<capturing, devCount, pend, aborting>>

\* self.prepared.set()
SetPrepared ==
    /\ tpc = "armed"
    /\ prepared' = TRUE
    /\ tpc' = "wait_start"
    /\ UNCHANGED <<cfg, cpc, gen, dev, hist>>
    /\ UNCHANGED <<tear, pull, lib>>
    /\ UNCHANGED <<stopped, start_event, nb_acquired_frames, status,
                   nb_frames_triggered>>

\* self.start_event.wait() returns
AwaitStart ==
    /\ tpc = "wait_start"
    /\ start_event
    /\ tpc' = "check_stopped"
    /\ UNCHANGED <<cfg, cpc, acq, gen, dev, hist>>
    /\ UNCHANGED <<tear, pull, lib>>

\* "if self.stopped: self.status = Status.Ready; return"
CheckStoppedAtStart ==
    /\ tpc = "check_stopped"
    /\ IF stopped
       THEN /\ status' = "Ready"
            /\ tpc' = "exit"
       ELSE /\ status' = status
            /\ tpc' = "start"
    /\ UNCHANGED <<cfg, cpc, gen, dev, hist>>
    /\ UNCHANGED <<tear, pull, lib>>
    /\ UNCHANGED <<stopped, start_event, prepared, nb_acquired_frames,
                   nb_frames_triggered>>

\* self.detector.start() (dcamcap_start) and the status that follows it
DetectorStart ==
    /\ tpc = "start"
    /\ capturing' = TRUE
    /\ devCount' = 0
    /\ status' = IF trigger_mode # "IntTrigMult" THEN "Exposure" ELSE status
    /\ tpc' = "first_next"
    /\ UNCHANGED <<cfg, cpc, gen, hist>>
    /\ UNCHANGED <<tear, pull, lib>>
    /\ UNCHANGED <<ring, hwait, pend, aborting>>
    /\ UNCHANGED <<stopped, start_event, prepared, nb_acquired_frames,
                   nb_frames_triggered>>

\* zip's first next(stream): stream() starts, last_frame_index = -1, and
\* event_stream builds its SWaitStart and enters dcamwait_start.
FirstNext ==
    /\ tpc = "first_next"
    /\ last_frame_index' = -1
    /\ eventhappened' = 0
    /\ gstate' = "GEN_RUNNING"
    /\ tpc' = "wait"
    /\ UNCHANGED <<cfg, cpc, acq, dev, hist>>
    /\ UNCHANGED <<tear, pull, lib>>
    /\ UNCHANGED <<fi, iFrame, nNewestFrameIndex, event, ev_handle>>

\* What event_stream does with the end of one dcamwait_start: _wait_start
\* returns EWaitEvent(eventhappened) unless it raises; event_stream returns
\* (ending the stream) on a raised ABORT and re-raises anything else.
WaitEnds(how, eh) ==
    /\ outcome' = how
    /\ eventhappened' = eh
    /\ IF WaitStartRaises(how)
       THEN IF how = "ABORT"
            THEN /\ tpc' = "finish"
                 /\ err' = err
            ELSE /\ tpc' = "exit"
                 /\ err' = "DCAMError"
       ELSE /\ tpc' = "event"
            /\ err' = err
    /\ event' = IF WaitStartRaises(how) THEN event ELSE eh
    /\ gstate' = IF WaitStartRaises(how) THEN "GEN_CLOSED" ELSE gstate
    /\ UNCHANGED <<cfg, cpc, acq>>
    /\ UNCHANGED <<tear, pull, lib>>
    /\ UNCHANGED <<last_frame_index, fi, iFrame, nNewestFrameIndex, ev_handle>>
    /\ UNCHANGED <<ring, hwait, capturing, devCount>>
    /\ UNCHANGED <<emitted, delivered, wakes, stopAt, stopInWait, abortedBy>>

\* dcamwait_start returns the raised bits it was asked for
WaitFired ==
    /\ tpc = "wait"
    /\ hwait = "open"
    /\ Len(wakes) < MaxWakes
    /\ \E S \in (SUBSET (pend \cap DefaultMask)) \ {{}} :
          /\ pend' = pend \ S
          /\ WaitEnds("OK", EventBits(S))
    /\ aborting' = aborting

\* dcamwait_start fails with TIMEOUT: nothing raised within the timeout.
\* The library may clear eventhappened or leave the previous value.
WaitTimedOut ==
    /\ tpc = "wait"
    /\ hwait = "open"
    /\ Len(wakes) < MaxWakes
    /\ ~WaitsForever(TimeoutField(TIMEOUT_INFINITE))
    /\ pend \cap DefaultMask = {}
    /\ \E eh \in {eventhappened, 0} : WaitEnds("TIMEOUT", eh)
    /\ UNCHANGED <<pend, aborting>>

\* dcamwait_start fails with ABORT after dcamwait_abort
WaitAborted ==
    /\ tpc = "wait"
    /\ hwait = "open"
    /\ Len(wakes) < MaxWakes
    /\ aborting
    /\ aborting' = FALSE
    /\ \E eh \in {eventhappened, 0} : WaitEnds("ABORT", eh)
    /\ pend' = pend

\* stream(): one event of "for event in estream"
Dispatch ==
    /\ tpc = "event"
    /\ IF IsStopped(event)
       THEN /\ tpc' = "finish"
            /\ gstate' = "GEN_CLOSED"
            /\ nNewestFrameIndex' = nNewestFrameIndex
            /\ wakes' = Append(wakes, <<event, -2, last_frame_index>>)
       ELSE IF IsFrameReady(event)
       THEN /\ tpc' = "drain"
            /\ gstate' = gstate
            /\ nNewestFrameIndex' = NewestIndex
            /\ wakes' = Append(wakes, <<event, NewestIndex, last_frame_index>>)
       ELSE /\ tpc' = "wait"
            /\ gstate' = gstate
            /\ nNewestFrameIndex' = nNewestFrameIndex
            /\ wakes' = Append(wakes, <<event, -2, last_frame_index>>)
    /\ UNCHANGED <<cfg, cpc, acq, dev>>
    /\ UNCHANGED <<tear, pull, lib>>
    /\ UNCHANGED <<last_frame_index, fi, iFrame, eventhappened, event,
                   ev_handle>>
    /\ UNCHANGED <<emitted, delivered, outcome, err, stopAt, stopInWait,
                   abortedBy>>

\* stream(): the while test, and "yield next(fstream)" when it holds.
\* frame_stream is exhausted after nb_frames frames: its StopIteration
\* inside the generator stream() becomes a RuntimeError.  dcambuf_lockframe
\* fails when there is no ring, and that DCAMError leaves stream() too.
Drain ==
    /\ tpc = "drain"
    /\ IF DrainMore(nNewestFrameIndex, last_frame_index)
       THEN IF fi < nb_frames
            THEN IF ring
                 THEN /\ iFrame' = LockIndex(fi, nNewestFrameIndex)
                      /\ fi' = fi + 1
                      /\ emitted' = Append(emitted, iFrame')
                      /\ gstate' = "GEN_SUSPENDED"
                      /\ tpc' = "frame"
                      /\ err' = err
                 ELSE /\ iFrame' = LockIndex(fi, nNewestFrameIndex)
                      /\ err' = "DCAMError"
                      /\ gstate' = "GEN_CLOSED"
                      /\ tpc' = "exit"
                      /\ UNCHANGED <<fi, emitted>>
            ELSE /\ err' = "RuntimeError"
                 /\ gstate' = "GEN_CLOSED"
                 /\ tpc' = "exit"
                 /\ UNCHANGED <<iFrame, fi, emitted>>
       ELSE /\ tpc' = "wait"
            /\ UNCHANGED <<iFrame, fi, emitted, err, gstate>>
    /\ UNCHANGED <<cfg, cpc, acq, dev>>
    /\ UNCHANGED <<tear, pull, lib>>
    /\ UNCHANGED <<last_frame_index, nNewestFrameIndex, eventhappened, event,
                   ev_handle>>
    /\ UNCHANGED <<delivered, wakes, outcome, stopAt, stopInWait, abortedBy>>

\* acquire(): the loop body up to "self.status = Status.Readout"
FrameArrived ==
    /\ tpc = "frame"
    /\ ~late
    /\ IF stopped
       THEN /\ status' = "Ready"
            /\ tpc' = "exit"
       ELSE /\ status' = "Readout"
            /\ tpc' = "copy"
    /\ UNCHANGED <<cfg, cpc, gen, dev, hist>>
    /\ UNCHANGED <<tear, pull, lib>>
    /\ UNCHANGED <<stopped, start_event, prepared, nb_acquired_frames,
                   nb_frames_triggered>>

\* frame_stream makes one SFrame before its loop and yields that object
\* every time: the slot index seen through the k-th frame yielded is the
\* iFrame field of that one object
FrameView(k) == iFrame

\* zip(stream, buffers, frame_infos): the tuple made with the frame just
\* yielded takes the next buffer and the next frame_info, both numbered by
\* the frames yielded before it
ZipIndexOneBased == Len(emitted)
ZipIndex == Len(emitted) - 1

\* "copy_frame(frame, buff)" and "buffer_manager.newFrameReady(frame_info)"
CopyFrame ==
    /\ tpc = "copy"
    /\ delivered' = Append(delivered, <<ZipIndex, iFrame, ZipIndex>>)
    /\ tpc' = "count"
    /\ UNCHANGED <<cfg, cpc, acq, gen, dev>>
    /\ UNCHANGED <<tear, pull, lib>>
    /\ UNCHANGED <<emitted, wakes, outcome, err, stopAt, stopInWait,
                   abortedBy>>

\* "self.nb_acquired_frames += 1" and the status that follows; the
\* statement "Status.Exposure" of the else branch assigns nothing.
CountFrame ==
    /\ tpc = "count"
    /\ nb_acquired_frames' = nb_acquired_frames + 1
    /\ status' = IF trigger_mode = "IntTrigMult" THEN "Ready" ELSE status
    /\ tpc' = "resume"
    /\ UNCHANGED <<cfg, cpc, gen, dev, hist>>
    /\ UNCHANGED <<tear, pull, lib>>
    /\ UNCHANGED <<stopped, start_event, prepared, nb_frames_triggered>>

\* zip's next(stream) after a frame: stream() resumes behind its yield
Resume ==
    /\ tpc = "resume"
    /\ last_frame_index' = LastAfterYield(last_frame_index)
    /\ gstate' = "GEN_RUNNING"
    /\ tpc' = "drain"
    /\ UNCHANGED <<cfg, cpc, acq, dev, hist>>
    /\ UNCHANGED <<tear, pull, lib>>
    /\ UNCHANGED <<fi, iFrame, nNewestFrameIndex, eventhappened, event,
                   ev_handle>>

\* the for loop ends: "self.status = Status.Ready"
Finish ==
    /\ tpc = "finish"
    /\ ~late
    /\ status' = "Ready"
    /\ tpc' = "exit"
    /\ UNCHANGED <<cfg, cpc, gen, dev, hist>>
    /\ UNCHANGED <<tear, pull, lib>>
    /\ UNCHANGED <<stopped, start_event, prepared, nb_acquired_frames,
                   nb_frames_triggered>>

\* Stream.close -> ExitStack.close leaves one context: here event_stream,
\* whose __exit__ is EventStream.close: abort, close the handle, forget it.
CloseEvents ==
    /\ Closing
    /\ context_stack # <<>>
    /\ context_stack[ExitIndex(context_stack)] = "event_stream"
    /\ context_stack' = Leave(context_stack)
    /\ IF ev_handle # "none"
       THEN /\ abortedBy' = abortedBy \cup {"close"}
            /\ hwait' = "closed"
            /\ ev_handle' = "none"
            /\ calls' = calls \o <<"dcamwait_abort", "dcamwait_close">>
       ELSE UNCHANGED <<abortedBy, hwait, ev_handle, calls>>
    /\ UNCHANGED <<cfg, cpc, tpc, acq, closing>>
    /\ UNCHANGED <<pull, lib>>
    /\ UNCHANGED <<last_frame_index, fi, iFrame, nNewestFrameIndex,
                   eventhappened, event, gstate>>
    /\ UNCHANGED <<ring, capturing, devCount, pend, aborting>>
    /\ UNCHANGED <<emitted, delivered, wakes, outcome, err, stopAt,
                   stopInWait>>

\* ... and here frame_stream, whose __exit__ releases the ring; a refusal
\* of the library is logged and, unless ReleaseRaises, goes no further.
ReleaseRing ==
    /\ Closing
    /\ context_stack # <<>>
    /\ context_stack[ExitIndex(context_stack)] = "frame_stream"
    /\ context_stack' = Leave(context_stack)
    /\ ring' = IF ReleaseFails THEN ring ELSE FALSE
    /\ calls' = calls \o <<"dcambuf_release">>
                 \o (IF ReleaseRaises(ReleaseFails) THEN <<"raise:release">>
                     ELSE <<>>)
    /\ err' = IF ReleaseRaises(ReleaseFails) THEN "DCAMError" ELSE err
    /\ UNCHANGED <<cfg, cpc, tpc, acq, gen, closing>>
    /\ UNCHANGED <<pull, lib>>
    /\ UNCHANGED <<hwait, capturing, devCount, pend, aborting>>
    /\ UNCHANGED <<emitted, delivered, wakes, outcome, stopAt, stopInWait,
                   abortedBy>>

\* the with block is left and acquire() returns: the thread ends
Return ==
    /\ tpc = "exit"
    /\ ~late
    /\ context_stack = <<>>
    /\ tpc' = "dead"
    /\ UNCHANGED <<cfg, cpc, acq, gen, dev, hist, tear, pull, lib>>

\* ------------------------------------------------------ the control thread

\* Acquisition.wait_until_prepared returns: prepareAcq is over
Prepared ==
    /\ cpc = "prepare"
    /\ prepared
    /\ cpc' = "ready"
    /\ UNCHANGED <<cfg, tpc, acq, gen, dev, hist>>
    /\ UNCHANGED <<tear, pull, lib>>

\* Interface.startAcq -> Acquisition.start
StartAcq ==
    /\ cpc = "ready"
    /\ IF start_event
       THEN /\ nb_frames_triggered < MaxTriggers
            /\ nb_frames_triggered' = nb_frames_triggered + 1
            /\ start_event' = start_event
       ELSE /\ start_event' = TRUE
            /\ nb_frames_triggered' = nb_frames_triggered
    /\ UNCHANGED <<cfg, cpc, tpc, gen, dev, hist>>
    /\ UNCHANGED <<tear, pull, lib>>
    /\ UNCHANGED <<stopped, prepared, nb_acquired_frames, status>>

\* Interface.stopAcq -> Acquisition.stop: "self.stopped = True"
StopSetFlag ==
    /\ cpc = "ready"
    /\ stopped' = TRUE
    /\ stopAt' = Len(emitted)
    /\ stopInWait' = (tpc = "wait")
    /\ stopFirst' = ~start_event
    /\ cpc' = "stop_device"
    /\ UNCHANGED <<cfg, tpc, gen, dev>>
    /\ UNCHANGED <<tear, lib, late, pulled, fault>>
    /\ UNCHANGED <<start_event, prepared, nb_acquired_frames, status,
                   nb_frames_triggered>>
    /\ UNCHANGED <<emitted, delivered, wakes, outcome, err, abortedBy>>

\* "self.detector.stop()": dcamcap_stop halts a running capture, which
\* raises the stopped event
StopDevice ==
    /\ cpc = "stop_device"
    /\ IF capturing
       THEN /\ capturing' = FALSE
            /\ pend' = pend \cup {CAP_STOPPED}
       ELSE UNCHANGED <<capturing, pend>>
    /\ cpc' = "stop_event"
    /\ UNCHANGED <<cfg, tpc, acq, gen, hist>>
    /\ UNCHANGED <<tear, pull, lib>>
    /\ UNCHANGED <<ring, hwait, devCount, aborting>>

\* "self.start_event.set()"
StopSetEvent ==
    /\ cpc = "stop_event"
    /\ start_event' = TRUE
    /\ cpc' = "join"
    /\ UNCHANGED <<cfg, tpc, gen, dev, hist>>
    /\ UNCHANGED <<tear, pull, lib>>
    /\ UNCHANGED <<stopped, prepared, nb_acquired_frames, status,
                   nb_frames_triggered>>

\* "self.acq_thread.join()" returns
StopJoin ==
    /\ cpc = "join"
    /\ tpc = "dead"
    /\ cpc' = "stopped"
    /\ UNCHANGED <<cfg, tpc, acq, gen, dev, hist>>
    /\ UNCHANGED <<tear, pull, lib>>

\* EventStream.abort called from the control thread: dcamwait_abort makes
\* the wait in progress, if there is one, fail with ABORT.
Abort ==
    /\ cpc = "ready"
    /\ "user" \notin abortedBy
    /\ ev_handle # "none"
    /\ abortedBy' = abortedBy \cup {"user"}
    /\ aborting' = (tpc = "wait")
    /\ UNCHANGED <<cfg, cpc, tpc, acq, gen>>
    /\ UNCHANGED <<tear, pull, lib>>
    /\ UNCHANGED <<ring, hwait, capturing, devCount, pend>>
    /\ UNCHANGED <<emitted, delivered, wakes, outcome, err, stopAt,
                   stopInWait>>

\* ------------------------------------------------------------- the camera

\* the capture completes one more frame and raises frame-ready
DeviceFrame ==
    /\ capturing
    /\ devCount < CaptureLimit
    /\ devCount' = devCount + 1
    /\ pend' = pend \cup {CAP_FRAMEREADY}
    /\ UNCHANGED <<cfg, cpc, tpc, acq, gen, hist>>
    /\ UNCHANGED <<tear, pull, lib>>
    /\ UNCHANGED <<ring, hwait, capturing, aborting>>

\* a snap capture ends by itself once the ring is full and raises stopped
DeviceSnapEnd ==
    /\ capturing
    /\ ~live
    /\ devCount = nb_frames
    /\ capturing' = FALSE
    /\ pend' = pend \cup {CAP_STOPPED}
    /\ UNCHANGED <<cfg, cpc, tpc, acq, gen, hist>>
    /\ UNCHANGED <<tear, pull, lib>>
    /\ UNCHANGED <<ring, hwait, devCount, aborting>>

Next ==
    \/ Construct \/ SetPrepared \/ AwaitStart \/ CheckStoppedAtStart
    \/ DetectorStart \/ FirstNext
    \/ WaitFired \/ WaitTimedOut \/ WaitAborted
    \/ Dispatch \/ Drain \/ FrameArrived \/ CopyFrame \/ CountFrame \/ Resume \/ Finish
    \/ CloseEvents \/ ReleaseRing \/ Return
    \/ Prepared \/ StartAcq \/ StopSetFlag \/ StopDevice \/ StopSetEvent
    \/ StopJoin \/ Abort
    \/ DeviceFrame \/ DeviceSnapEnd

Spec == Init /\ [][Next]_vars

\* acquire() runs in a thread of its own and stop() in the caller's: each
\* goes on whenever it can
AcquireStep ==
    \/ Construct \/ SetPrepared \/ AwaitStart \/ CheckStoppedAtStart
    \/ DetectorStart \/ FirstNext
    \/ WaitFired \/ WaitTimedOut \/ WaitAborted
    \/ Dispatch \/ Drain \/ FrameArrived \/ CopyFrame \/ CountFrame \/ Resume
    \/ Finish \/ CloseEvents \/ ReleaseRing \/ Return

StopStep == StopDevice \/ StopSetEvent \/ StopJoin

SpecFair == Spec /\ WF_vars(AcquireStep) /\ WF_vars(StopStep)

\* --------------------------------------- faults and use of a closed stream

\* dcamwait_start fails for a reason of the device (neither TIMEOUT nor
\* ABORT).  The library may clear eventhappened or leave the previous value.
WaitFaulted ==
    /\ tpc = "wait"
    /\ hwait = "open"
    /\ Len(wakes) < MaxWakes
    /\ \E eh \in {eventhappened, 0} : WaitEnds("FAULT", eh)
    /\ UNCHANGED <<pend, aborting>>

\* dcamwait_start on the handle that dcamwait_close has closed: the
\* generator event_stream still holds the handle it was created with.
WaitInvalid ==
    /\ tpc = "wait"
    /\ hwait # "open"
    /\ Len(wakes) < MaxWakes
    /\ \E eh \in {eventhappened, 0} : WaitEnds("INVALID", eh)
    /\ UNCHANGED <<pend, aborting>>

\* DCAM.__getattr__: the function put around every native call raises
\* DCAMError when the call has failed
CallRaisesNever(failed) == FALSE
CallRaises(failed) == failed

\* "Stream(detector, nb_frames)" when the library refuses dcambuf_alloc, or
\* dcamwait_open after the ring was allocated.  The DCAMError leaves
\* Stream.__init__ before the with block is entered: no __exit__ runs,
\* acquire() ends with the exception and prepared is never set.
ConstructFaulted ==
    /\ tpc = "construct"
    /\ \/ /\ fault' = <<"dcambuf_alloc", 0>>
          /\ ring' = ring
       \/ /\ fault' = <<"dcamwait_open", 0>>
          /\ ring' = TRUE
    /\ err' = "DCAMError"
    /\ tpc' = "dead"
    /\ UNCHANGED <<cfg, cpc, acq, gen, tear, lib, late, pulled, stopFirst>>
    /\ UNCHANGED <<hwait, capturing, devCount, pend, aborting>>
    /\ UNCHANGED <<emitted, delivered, wakes, outcome, stopAt, stopInWait,
                   abortedBy>>

\* stream(): "transfer = next(tstream)" when dcamcap_transferinfo fails.
\* The DCAMError leaves transfer_stream, stream() and next(stream); were it
\* not raised, the while loop would run on the cursor read before.
TransferFaulted ==
    /\ tpc = "event"
    /\ ~late
    /\ fault[1] = "none"
    /\ ~IsStopped(event)
    /\ IsFrameReady(event)
    /\ fault' = <<"dcamcap_transferinfo", Len(emitted)>>
    /\ IF CallRaises(TRUE)
       THEN /\ err' = "DCAMError"
            /\ gstate' = "GEN_CLOSED"
            /\ tpc' = "exit"
       ELSE /\ tpc' = "drain"
            /\ UNCHANGED <<err, gstate>>
    /\ UNCHANGED <<cfg, cpc, acq, dev, tear, lib, late, pulled, stopFirst>>
    /\ UNCHANGED <<last_frame_index, fi, iFrame, nNewestFrameIndex,
                   eventhappened, event, ev_handle>>
    /\ UNCHANGED <<emitted, delivered, wakes, outcome, stopAt, stopInWait,
                   abortedBy>>

\* stream(): "yield next(fstream)" when dcambuf_lockframe fails on a ring
\* that exists.  The DCAMError leaves frame_stream, stream() and
\* next(stream); were it not raised, the frame would be yielded as it is.
LockFaulted ==
    /\ tpc = "drain"
    /\ ~late
    /\ fault[1] = "none"
    /\ DrainMore(nNewestFrameIndex, last_frame_index)
    /\ fi < nb_frames
    /\ ring
    /\ fault' = <<"dcambuf_lockframe", Len(emitted)>>
    /\ iFrame' = LockIndex(fi, nNewestFrameIndex)
    /\ IF CallRaises(TRUE)
       THEN /\ err' = "DCAMError"
            /\ gstate' = "GEN_CLOSED"
            /\ tpc' = "exit"
            /\ UNCHANGED <<fi, emitted>>
       ELSE /\ fi' = fi + 1
            /\ emitted' = Append(emitted, iFrame')
            /\ gstate' = "GEN_SUSPENDED"
            /\ tpc' = "frame"
            /\ err' = err
    /\ UNCHANGED <<cfg, cpc, acq, dev, tear, lib, late, pulled, stopFirst>>
    /\ UNCHANGED <<last_frame_index, nNewestFrameIndex, eventhappened, event,
                   ev_handle>>
    /\ UNCHANGED <<delivered, wakes, outcome, stopAt, stopInWait, abortedBy>>

\* EventStream.close when the library refuses dcamwait_abort or
\* dcamwait_close: the wrapper raises DCAMError out of close(), the lines
\* after the failing call do not run, and ExitStack goes on with the
\* contexts that are left before it raises the error again.
CloseEventsFaulted ==
    /\ Closing
    /\ context_stack # <<>>
    /\ context_stack[ExitIndex(context_stack)] = "event_stream"
    /\ ev_handle # "none"
    /\ context_stack' = Leave(context_stack)
    /\ \/ /\ calls' = calls \o <<"dcamwait_abort", "raise:abort">>
          /\ UNCHANGED <<abortedBy, hwait>>
       \/ /\ calls' = calls \o <<"dcamwait_abort", "dcamwait_close",
                                 "raise:close">>
          /\ abortedBy' = abortedBy \cup {"close"}
          /\ hwait' = hwait
    /\ err' = "DCAMError"
    /\ UNCHANGED <<cfg, cpc, tpc, acq, gen, closing>>
    /\ UNCHANGED <<pull, lib>>
    /\ UNCHANGED <<ring, capturing, devCount, pend, aborting>>
    /\ UNCHANGED <<emitted, delivered, wakes, outcome, stopAt, stopInWait>>

\* Stream.close called once more after the with block has closed the stream
CloseAgain ==
    /\ tpc = "dead"
    /\ closing = "no"
    /\ closing' = "again"
    /\ UNCHANGED <<cfg, cpc, tpc, acq, gen, dev, hist, pull, lib>>
    /\ UNCHANGED <<context_stack, calls>>

\* ... ExitStack.close finds no context left and returns
CloseAgainEnds ==
    /\ closing = "again"
    /\ context_stack = <<>>
    /\ closing' = "done"
    /\ UNCHANGED <<cfg, cpc, tpc, acq, gen, dev, hist, pull, lib>>
    /\ UNCHANGED <<context_stack, calls>>

\* Stream.__next__ called after the stream was closed: next(self.stream)
\* resumes the generator stream() wherever it stands.
LatePull ==
    /\ tpc = "dead"
    /\ ~late
    /\ closing # "again"
    /\ late' = TRUE
    /\ IF gstate = "GEN_CREATED"
       THEN /\ tpc' = "first_next"
            /\ pulled' = pulled
       ELSE IF gstate = "GEN_SUSPENDED"
       THEN /\ tpc' = "resume"
            /\ pulled' = pulled
       ELSE /\ tpc' = tpc
            /\ pulled' = "StopIteration"
    /\ UNCHANGED <<cfg, cpc, acq, gen, dev, hist, tear, lib, fault,
                   stopFirst>>

\* ... and what that call hands to its caller: the frame stream() yields,
\* StopIteration when stream() returns, or the exception that leaves it.
LateReturn ==
    /\ late
    /\ tpc \in {"frame", "finish", "exit"}
    /\ pulled' = IF tpc = "frame" THEN "frame"
                 ELSE IF tpc = "finish" THEN "StopIteration"
                 ELSE err
    /\ tpc' = "dead"
    /\ late' = late
    /\ UNCHANGED <<cfg, cpc, acq, gen, dev, hist, tear, lib, fault,
                   stopFirst>>

\* ------------------------------------------------------------ copy_frame

\* copy_frame(frame, into): the whole call.  numpy.empty refuses a float
\* size; the memmove copies into.nbytes bytes, reading past the frame when
\* the array is larger (the read may also end the process); assigning the
\* dtype and then the shape raises ValueError when the sizes do not fit.
CopyFrameCall ==
    /\ cret = "none"
    /\ IF ~cinto.given /\ BytesPerPixelIsFloat(cframe.type)
       THEN /\ cret' = "TypeError"
            /\ cinto' = cinto
       ELSE LET dst == IF cinto.given THEN cinto
                       ELSE [ByteArray(FrameBytes(cframe))
                                EXCEPT !.given = FALSE]
                n == Len(dst.data)
                moved == Moved(dst, cframe)
                item == ItemSize(cframe.type)
                cells == cframe.width * cframe.height
            IN  \/ /\ MovedBytes(n, cframe) > FrameBytes(cframe)
                   /\ cret' = "crash"
                   /\ cinto' = cinto
                \/ IF item = 0
                   THEN /\ cinto' = moved
                        /\ cret' = "returned"
                   ELSE IF n % item # 0
                   THEN /\ cinto' = moved
                        /\ cret' = "ValueError"
                   ELSE IF n \div item # cells
                   THEN /\ cinto' = [moved EXCEPT !.itemsize = item,
                                                  !.shape = <<n \div item>>]
                        /\ cret' = "ValueError"
                   ELSE /\ cinto' = [moved EXCEPT !.itemsize = item,
                                        !.shape = <<cframe.width,
                                                    cframe.height>>]
                        /\ cret' = "returned"
    /\ UNCHANGED <<cfg, cpc, tpc, acq, gen, dev, hist, tear, pull>>
    /\ UNCHANGED <<acqs, ipc, cframe, side>>

NextCopy == CopyFrameCall

\* every frame and every array within the bounds, or no array, with the
\* rest of the program at rest
InitCopy ==
    /\ SessionInit
    /\ nb_frames = 1 /\ ~live /\ trigger_mode = "IntTrig"
    /\ InterfaceIdle
    /\ \E w \in 1..MaxDim, h \in 1..MaxDim, t \in PixelTypes :
          cframe = [width |-> w, height |-> h, type |-> t]
    /\ cinto \in {NoArray} \cup {ByteArray(n) : n \in 0..MaxBytes}
    /\ cret = "none"
    /\ SideIdle

SpecCopy == InitCopy /\ [][NextCopy]_vars

\* ----------------------------------------- one Interface, several sessions

\* Acquisition.__init__: the fields of a new Acquisition, its thread started
NewAcquisition ==
    [pc |-> "construct", stopped |-> FALSE, start_event |-> FALSE,
     prepared |-> FALSE, holds |-> FALSE]

\* Interface.acq once prepareAcq has assigned it: the newest Acquisition
CurrentAcq == Len(acqs)

\* what the steps of the Interface and of its sessions leave alone
SessionFrame ==
    /\ UNCHANGED <<cfg, cpc, tpc, acq, gen, hist, tear, pull>>
    /\ UNCHANGED <<hwait, devCount, pend, aborting>>
    /\ UNCHANGED <<cframe, cinto, cret, side>>

\* Interface.prepareAcq up to wait_until_prepared: a new Acquisition is
\* created and assigned, whatever the previous one is doing
PrepareAcq ==
    /\ ipc = "idle"
    /\ Len(acqs) < MaxSessions
    /\ acqs' = Append(acqs, NewAcquisition)
    /\ ipc' = "preparing"
    /\ UNCHANGED <<ring, capturing>>
    /\ SessionFrame

\* ... wait_until_prepared returns
PrepareReturns ==
    /\ ipc = "preparing"
    /\ acqs[CurrentAcq].prepared
    /\ ipc' = "idle"
    /\ UNCHANGED <<acqs, ring, capturing>>
    /\ SessionFrame

\* Interface.startAcq -> Acquisition.start: the first call sets start_event
SessionStart ==
    /\ ipc = "idle"
    /\ CurrentAcq > 0
    /\ ~acqs[CurrentAcq].start_event
    /\ acqs' = [acqs EXCEPT ![CurrentAcq].start_event = TRUE]
    /\ UNCHANGED <<ipc, ring, capturing>>
    /\ SessionFrame

\* Interface.stopAcq -> Acquisition.stop: "self.stopped = True"
SessionStopFlag ==
    /\ ipc = "idle"
    /\ CurrentAcq > 0
    /\ acqs' = [acqs EXCEPT ![CurrentAcq].stopped = TRUE]
    /\ ipc' = "stop_device"
    /\ UNCHANGED <<ring, capturing>>
    /\ SessionFrame

\* "self.detector.stop()"
SessionStopDevice ==
    /\ ipc = "stop_device"
    /\ capturing' = FALSE
    /\ ipc' = "stop_event"
    /\ UNCHANGED <<acqs, ring>>
    /\ SessionFrame

\* "self.start_event.set()"
SessionStopEvent ==
    /\ ipc = "stop_event"
    /\ acqs' = [acqs EXCEPT ![CurrentAcq].start_event = TRUE]
    /\ ipc' = "join"
    /\ UNCHANGED <<ring, capturing>>
    /\ SessionFrame

\* "self.acq_thread.join()" returns
SessionStopJoin ==
    /\ ipc = "join"
    /\ acqs[CurrentAcq].pc = "dead"
    /\ ipc' = "idle"
    /\ UNCHANGED <<acqs, ring, capturing>>
    /\ SessionFrame

\* acquire(): "with Stream(detector, nb_frames) as stream".  dcambuf_alloc
\* on a device whose ring another stream still holds either succeeds or
\* fails; a failure ends the thread before prepared is set.
SessionConstruct ==
    \E i \in DOMAIN acqs :
        /\ acqs[i].pc = "construct"
        /\ \/ /\ ring' = TRUE
              /\ acqs' = [acqs EXCEPT ![i].pc = "armed", ![i].holds = TRUE]
           \/ /\ ring
              /\ ring' = ring
              /\ acqs' = [acqs EXCEPT ![i].pc = "dead"]
        /\ UNCHANGED <<ipc, capturing>>
        /\ SessionFrame

\* acquire(): "self.prepared.set()"
SessionPrepared ==
    \E i \in DOMAIN acqs :
        /\ acqs[i].pc = "armed"
        /\ acqs' = [acqs EXCEPT ![i].pc = "wait_start", ![i].prepared = TRUE]
        /\ UNCHANGED <<ipc, ring, capturing>>
        /\ SessionFrame

\* acquire(): start_event.wait() returns; return if stopped, else
\* detector.start() and into the loop over the stream
SessionBegin ==
    \E i \in DOMAIN acqs :
        /\ acqs[i].pc = "wait_start"
        /\ acqs[i].start_event
        /\ IF acqs[i].stopped
           THEN /\ acqs' = [acqs EXCEPT ![i].pc = "exit"]
                /\ capturing' = capturing
           ELSE /\ acqs' = [acqs EXCEPT ![i].pc = "streaming"]
                /\ capturing' = TRUE
        /\ UNCHANGED <<ipc, ring>>
        /\ SessionFrame

\* acquire(): the loop ends: the stream saw the capture stop, or a frame
\* arrived after stop() had set the flag
SessionLoopEnds ==
    \E i \in DOMAIN acqs :
        /\ acqs[i].pc = "streaming"
        /\ ~capturing \/ acqs[i].stopped
        /\ acqs' = [acqs EXCEPT ![i].pc = "exit"]
        /\ UNCHANGED <<ipc, ring, capturing>>
        /\ SessionFrame

\* the with block is left: Stream.close, and the thread ends
SessionTeardown ==
    \E i \in DOMAIN acqs :
        /\ acqs[i].pc = "exit"
        /\ ring' = IF ReleaseFails THEN ring ELSE FALSE
        /\ acqs' = [acqs EXCEPT ![i].pc = "dead", ![i].holds = FALSE]
        /\ UNCHANGED <<ipc, capturing>>
        /\ SessionFrame

\* a snap capture ends by itself
SessionSnapEnd ==
    /\ capturing
    /\ capturing' = FALSE
    /\ UNCHANGED <<acqs, ipc, ring>>
    /\ SessionFrame

NextSessions ==
    \/ PrepareAcq \/ PrepareReturns \/ SessionStart
    \/ SessionStopFlag \/ SessionStopDevice \/ SessionStopEvent
    \/ SessionStopJoin
    \/ SessionConstruct \/ SessionPrepared \/ SessionBegin
    \/ SessionLoopEnds \/ SessionTeardown
    \/ SessionSnapEnd

\* the Interface has just been created: no Acquisition yet, device idle
InitSessions ==
    /\ SessionInit
    /\ nb_frames = 1 /\ ~live /\ trigger_mode = "IntTrig"
    /\ InterfaceIdle
    /\ CopyIdle
    /\ SideIdle

SpecSessions == InitSessions /\ [][NextSessions]_vars

\* ------------------------------------------------- Device.open and close

\* Device.is_open: "self._handle is not None"
IsOpenNever(handle) == FALSE
IsOpen(handle) == handle # "none"

\* what the steps on devices leave alone
DevicesRest ==
    /\ UNCHANGED <<cfg, cpc, tpc, acq, gen, dev, hist, tear, pull>>
    /\ UNCHANGED <<acqs, ipc, cframe, cinto, cret>>
    /\ UNCHANGED <<wret, wraised, sev, sbranch, es, dcamlib>>

\* dcam[device_id]: the Device of that id is created when the dictionary
\* holds none; nb_devices reads self._state, so the library is initialised
GetItem ==
    \E id \in DOMAIN devs :
        /\ dcamlib.state = "init"
        /\ ~devs[id].alive
        /\ devs' = [devs EXCEPT ![id].alive = TRUE, ![id].handle = "none",
                                ![id].caps = "none",
                                ![id].last = "getitem"]
        /\ DevicesRest

\* Device.open: nothing when open; else dcamdev_open, which yields the
\* handle or fails, and its DCAMError leaves _handle as it was; with the
\* handle stored _build_capabilities fills the table, or stops at a DCAMError
\* of dcamprop_getname or dcamprop_getattr or at a ValueError of EProp, EUnit
\* or EPropAttr before it assigns the table
DeviceOpen ==
    \E id \in DOMAIN devs :
        /\ devs[id].alive
        /\ IF IsOpen(devs[id].handle)
           THEN devs' = [devs EXCEPT ![id].last = "open:noop"]
           ELSE /\ devs[id].opens < MaxOpens
                /\ \/ /\ dcamlib.state = "init"
                      /\ \E built \in BOOLEAN :
                            devs' = [devs EXCEPT
                                ![id].handle = "hdcam",
                                ![id].nopen = @ + 1,
                                ![id].opens = @ + 1,
                                ![id].caps = IF built THEN "built" ELSE "none",
                                ![id].last = IF built THEN "open"
                                             ELSE "open:capabilities"]
                   \/ devs' = [devs EXCEPT ![id].last = "open:DCAMError"]
        /\ DevicesRest

\* Device.close: dcamdev_close and "self._handle = None" when there is a
\* handle, nothing native otherwise; the table is reset in both cases
DeviceClose ==
    \E id \in DOMAIN devs :
        /\ devs[id].alive
        /\ IF devs[id].handle # "none"
           THEN devs' = [devs EXCEPT ![id].handle = "none",
                                    ![id].nopen = @ - 1,
                                    ![id].closes = @ + 1,
                                    ![id].caps = "none",
                                    ![id].last = "close"]
           ELSE devs' = [devs EXCEPT ![id].caps = "none",
                                    ![id].last = "close:noop"]
        /\ DevicesRest

\* the last reference to the Device goes: __del__ closes it and the
\* WeakValueDictionary of DCAM forgets it
DeviceDrop ==
    \E id \in DOMAIN devs :
        /\ devs[id].alive
        /\ IF devs[id].handle # "none"
           THEN devs' = [devs EXCEPT ![id].alive = FALSE,
                                    ![id].handle = "none",
                                    ![id].nopen = @ - 1,
                                    ![id].closes = @ + 1,
                                    ![id].caps = "none",
                                    ![id].last = "del"]
           ELSE devs' = [devs EXCEPT ![id].alive = FALSE,
                                    ![id].caps = "none",
                                    ![id].last = "del"]
        /\ DevicesRest

MaxLibCloses == 2

\* the keys that "for device in self._devices" yields: iterating a
\* WeakValueDictionary yields its keys, the ids of the cached devices
CachedKeys == {id \in DOMAIN devs : devs[id].alive}

\* DCAM.close: nothing without _state; else "device.close()" on each thing
\* the loop yields, an int, which has no close, so the AttributeError leaves
\* close() before dcam_uninit; with no cached device dcam_uninit runs and
\* _state is reset
DCAMClose ==
    /\ dcamlib.closes < MaxLibCloses
    /\ dcamlib' =
          IF dcamlib.state = "none"
          THEN [dcamlib EXCEPT !.closes = @ + 1, !.last = "close:noop"]
          ELSE IF CachedKeys # {}
          THEN [dcamlib EXCEPT !.closes = @ + 1,
                               !.last = "close:AttributeError"]
          ELSE [dcamlib EXCEPT !.closes = @ + 1, !.uninits = @ + 1,
                               !.state = "none", !.last = "close"]
    /\ UNCHANGED <<cfg, cpc, tpc, acq, gen, dev, hist, tear, pull>>
    /\ UNCHANGED <<acqs, ipc, cframe, cinto, cret>>
    /\ UNCHANGED <<devs, wret, wraised, sev, sbranch, es>>

NextDevices ==
    GetItem \/ DeviceOpen \/ DeviceClose \/ DeviceDrop \/ DCAMClose

\* DCAM is open and has created no Device
InitDevices ==
    /\ SessionInit
    /\ nb_frames = 1 /\ ~live /\ trigger_mode = "IntTrig"
    /\ InterfaceIdle
    /\ CopyIdle
    /\ SideIdle

SpecDevices == InitDevices /\ [][NextDevices]_vars

\* ------------------------------------- stream(): one event on its own

MaxEventBits == 6

\* stream(): the branch of the loop body taken for one event
StreamBranch(ev) ==
    IF IsStopped(ev) THEN "break"
    ELSE IF IsFrameReady(ev) THEN "frame_ready"
    ELSE "ignored"

\* the loop body of stream() on the event EWaitEvent(eventhappened)
DispatchEvent ==
    /\ sbranch = "none"
    /\ sbranch' = StreamBranch(sev)
    /\ sev' = sev
    /\ UNCHANGED <<cfg, cpc, tpc, acq, gen, dev, hist, tear, pull>>
    /\ UNCHANGED <<acqs, ipc, cframe, cinto, cret>>
    /\ UNCHANGED <<devs, wret, wraised, es, dcamlib>>

NextDispatch == DispatchEvent

\* eventhappened may hold any combination of bits
InitDispatch ==
    /\ SessionInit
    /\ nb_frames = 1 /\ ~live /\ trigger_mode = "IntTrig"
    /\ InterfaceIdle
    /\ CopyIdle
    /\ DevicesIdle
    /\ WrapperIdle
    /\ EventStreamIdle
    /\ LibraryIdle
    /\ sev \in 0..(2^MaxEventBits - 1)
    /\ sbranch = "none"

SpecDispatch == InitDispatch /\ [][NextDispatch]_vars

\* ---------------------------------- DCAM.__getattr__: one checked call

MaxCode == 8
SUCCESS == <<0, 1>>

\* functions that DCAM.__init__ binds to the instance straight from the
\* library: __getattr__ is not called for them
BoundInInit == {"dcam_uninit", "dcamdev_close"}

\* ctypes.c_int32(r).value < 0
Signed32Negative(r) == r[1] >= 32768

\* EError(r) succeeds: r is a member of EError.  Members with the high
\* words drawn by InitWrap: NONE, SUCCESS, 0x80000101..0x80000107 and
\* 0x80000110.
IsEError(r) ==
    \/ r[1] = 0 /\ r[2] \in {0, 1}
    \/ r[1] = 32768 /\ (r[2] \in 257..263 \/ r[2] = 272)

\* what a call of dcam.<name>(...) does with the value r of the library
WrapOutcome(name, r) ==
    IF name \in BoundInInit THEN "returns"
    ELSE IF r # SUCCESS /\ Signed32Negative(r)
    THEN IF IsEError(r) THEN "DCAMError" ELSE "ValueError"
    ELSE "returns"

WrappedCall ==
    /\ wraised = "none"
    /\ wraised' = WrapOutcome(wret[3], <<wret[1], wret[2]>>)
    /\ wret' = wret
    /\ UNCHANGED <<cfg, cpc, tpc, acq, gen, dev, hist, tear, pull>>
    /\ UNCHANGED <<acqs, ipc, cframe, cinto, cret>>
    /\ UNCHANGED <<devs, sev, sbranch, es, dcamlib>>

NextWrap == WrappedCall

\* restype is c_uint32: the value has two 16-bit words
InitWrap ==
    /\ SessionInit
    /\ nb_frames = 1 /\ ~live /\ trigger_mode = "IntTrig"
    /\ InterfaceIdle
    /\ CopyIdle
    /\ DevicesIdle
    /\ DispatchIdle
    /\ EventStreamIdle
    /\ LibraryIdle
    /\ wret \in {0, 32767, 32768, 65535}
                \X ((0..1) \cup (256..(256 + MaxCode)))
                \X {"dcamdev_open", "dcamdev_close"}
    /\ wraised = "none"

SpecWrap == InitWrap /\ [][NextWrap]_vars

\* --------------------- EventStream.abort and EventStream.close, two threads

MaxAborts == 3
MaxCloses == 2

EventRest ==
    /\ UNCHANGED <<cfg, cpc, tpc, acq, gen, dev, hist, tear, pull>>
    /\ UNCHANGED <<acqs, ipc, cframe, cinto, cret>>
    /\ UNCHANGED <<devs, wret, wraised, sev, sbranch, dcamlib>>

\* abort(): "if self._handle is not None"
AbortTest ==
    /\ es.apc = "idle"
    /\ es.aborts < MaxAborts
    /\ es' = [es EXCEPT !.aborts = @ + 1,
                        !.apc = IF es.handle # "none" THEN "read" ELSE "idle"]
    /\ EventRest

\* abort(): the argument "self._handle" of _wait_abort is read
AbortRead ==
    /\ es.apc = "read"
    /\ es' = [es EXCEPT !.arg = es.handle, !.apc = "call"]
    /\ EventRest

\* abort(): dcamwait_abort(handle) reaches the library
AbortCall ==
    /\ es.apc = "call"
    /\ es' = [es EXCEPT !.ncalls = Append(@, <<"abort", es.arg, es.native>>),
                        !.apc = "idle"]
    /\ EventRest

\* close(): "if self._handle is not None"
CloseTest ==
    /\ es.kpc = "idle"
    /\ es.closes < MaxCloses
    /\ es' = [es EXCEPT !.closes = @ + 1,
                        !.kpc = IF es.handle # "none" THEN "abort" ELSE "idle"]
    /\ EventRest

\* close(): "self.abort()" in the closing thread, which alone resets _handle
CloseAbort ==
    /\ es.kpc = "abort"
    /\ es' = [es EXCEPT !.ncalls = IF es.handle # "none"
                                   THEN Append(@, <<"abort", es.handle,
                                                    es.native>>)
                                   ELSE @,
                        !.kpc = "close"]
    /\ EventRest

\* close(): "self.device._wait_close(self._handle)"
CloseCall ==
    /\ es.kpc = "close"
    /\ es' = [es EXCEPT !.ncalls =
                            Append(@, <<"close", es.handle, es.native>>),
                        !.native = "closed",
                        !.kpc = "reset"]
    /\ EventRest

\* close(): "self._handle = None"
CloseReset ==
    /\ es.kpc = "reset"
    /\ es' = [es EXCEPT !.handle = "none", !.kpc = "idle"]
    /\ EventRest

NextAbortClose ==
    \/ AbortTest \/ AbortRead \/ AbortCall
    \/ CloseTest \/ CloseAbort \/ CloseCall \/ CloseReset

InitAbortClose ==
    /\ SessionInit
    /\ nb_frames = 1 /\ ~live /\ trigger_mode = "IntTrig"
    /\ InterfaceIdle
    /\ CopyIdle
    /\ SideIdle

SpecAbortClose == InitAbortClose /\ [][NextAbortClose]_vars

NextLib ==
    \/ Next
    \/ WaitFaulted \/ WaitInvalid
    \/ CloseAgain \/ CloseAgainEnds
    \/ LatePull \/ LateReturn

\* faults and late calls do not depend on the capture mode or the trigger
\* mode: one snap session with the internal trigger
InitLib == Init /\ ~live /\ trigger_mode = "IntTrig"

SpecLib == InitLib /\ [][NextLib]_vars

\* the same session when native calls of the streaming loop and of the
\* teardown may fail
NextFaults ==
    \/ Next
    \/ ConstructFaulted
    \/ TransferFaulted \/ LockFaulted
    \/ CloseEventsFaulted

SpecFaults == InitLib /\ [][NextFaults]_vars

\* ----------------------------------------------------------------- claims

\* one entry of wakes: the event stream() received, the transfer cursor it
\* then read (-2 when it read none) and last_frame_index at that moment
WEvent(w) == w[1]
WCursor(w) == w[2]
WBase(w) == w[3]
LastWake == wakes[Len(wakes)]

\* C1: a session without stop() or abort() whose device completed nb_frames
\* frames into the nb_frames-slot ring, announced them through frame-ready
\* wake-ups (in any grouping) and then signalled capture-stopped, has emitted
\* exactly the slots 0..nb_frames-1 in order, delivered with sequence
\* numbers 0..nb_frames-1, and has ended without an error.
C1_Announced ==
    /\ ~stopped
    /\ "user" \notin abortedBy
    /\ devCount = nb_frames
    /\ Len(wakes) >= 2
    /\ \A i \in 1..(Len(wakes) - 1) : WEvent(wakes[i]) = CAP_FRAMEREADY
    /\ WEvent(LastWake) = CAP_STOPPED
    /\ WCursor(wakes[Len(wakes) - 1]) = nb_frames - 1
C2_NoGapNoRepeat == \A k \in 1..Len(emitted) : emitted[k] = k - 1
C2_Witness ==
    /\ tpc = "wait"
    /\ Len(emitted) >= 2
    /\ \E i \in 1..(Len(wakes) - 1) :
          /\ WEvent(wakes[i]) = CAP_FRAMEREADY
          /\ WEvent(wakes[i + 1]) = CAP_FRAMEREADY
          /\ WCursor(wakes[i + 1]) < WCursor(wakes[i])

\* C3: the frames emitted by the stream and the frames counted in
\* nb_acquired_frames never exceed nb_frames, and the stream does not raise
\* when the count is reached.
C3_AtMostRequested ==
    /\ Len(emitted) <= nb_frames
    /\ nb_acquired_frames <= nb_frames
    /\ err # "RuntimeError"
C3_Witness ==
    /\ tpc = "wait"
    /\ Len(emitted) = nb_frames
    /\ nb_acquired_frames = nb_frames
    /\ Len(wakes) >= 2
    /\ WEvent(LastWake) = CAP_FRAMEREADY
    /\ WBase(LastWake) = nb_frames - 1

\* C4: a session whose stop() was issued when exactly k < nb_frames frames
\* had been emitted ends with exactly k frames delivered and no error.
C4_StopDeliversExactlyK ==
    (tpc = "dead" /\ stopAt >= 0 /\ stopAt < nb_frames) =>
        /\ nb_acquired_frames = stopAt
        /\ err = "none"

\* C5: once a wait has ended aborted, the stream is over: it neither waits
\* again nor emits another frame.
C5_AbortEndsStream == outcome = "ABORT" => tpc \in (Ended \cup {"event"})

\* C6: once the stream has received an event whose bits include
\* capture-stopped, the stream is over and issues no further wait.
C6_StoppedBitEndsStream ==
    (Len(wakes) > 0 /\ HasBit(WEvent(LastWake), CAP_STOPPED)) => tpc \in Ended

\* C7: when the stream is back in its wait after a frame-ready wake-up that
\* found the cursor m > 1 slots past last_frame_index, it has emitted exactly
\* those m slots, in ascending order, during that wake-up.
C7_Backlog ==
    /\ tpc = "wait"
    /\ Len(wakes) > 0
    /\ WEvent(LastWake) = CAP_FRAMEREADY
    /\ WCursor(LastWake) - WBase(LastWake) > 1
C7_BacklogDrained ==
    C7_Backlog =>
        LET b == WBase(LastWake)
            m == WCursor(LastWake) - WBase(LastWake)
        IN  /\ Len(emitted) = b + 1 + m
            /\ \A j \in 1..m : emitted[b + 1 + j] = b + j
            /\ last_frame_index = WCursor(LastWake)
C7_Witness == C7_Backlog /\ WBase(LastWake) >= 0

\* C8: a frame-ready wake-up that finds the cursor equal to last_frame_index
\* emits nothing, leaves last_frame_index as it is and leads back to the wait.
C8_Spurious ==
    /\ Len(wakes) > 0
    /\ WEvent(LastWake) = CAP_FRAMEREADY
    /\ WCursor(LastWake) = WBase(LastWake)
    /\ last_frame_index = WBase(LastWake)
C8_SpuriousWake ==
    [][(tpc = "drain" /\ tpc' # "drain" /\ C8_Spurious) =>
          /\ tpc' = "wait"
          /\ emitted' = emitted
          /\ last_frame_index' = last_frame_index]_vars
C8_Witness ==
    /\ tpc = "wait"
    /\ C8_Spurious
    /\ Len(emitted) >= 1
    /\ Len(emitted) = last_frame_index + 1

\* C9: with 3 slots and the events frame-ready (cursor 0), frame-ready
\* (cursor 2), capture-stopped, the stream has emitted slots 0, 1, 2 in that
\* order, all 3 were delivered, and the stream ended without an error.
C9_Events ==
    /\ nb_frames = 3
    /\ Len(wakes) = 3
    /\ WEvent(wakes[1]) = CAP_FRAMEREADY /\ WCursor(wakes[1]) = 0
    /\ WEvent(wakes[2]) = CAP_FRAMEREADY /\ WCursor(wakes[2]) = 2
    /\ WEvent(wakes[3]) = CAP_STOPPED
C9_Scenario ==
    C9_Events =>
        /\ emitted = <<0, 1, 2>>
        /\ nb_acquired_frames = 3
        /\ tpc \in Ended
        /\ err = "none"
C9_Witness == C9_Events /\ tpc = "dead"

\* C10: when stop() was issued during a native wait and has reached its
\* join, dcamwait_abort has been invoked.
C10_StopAbortsWait ==
    (stopInWait /\ cpc \in {"join", "stopped"}) => abortedBy # {}

\* C11: whenever stop() has returned, the acquisition thread has ended, the
\* frame ring has been released and the wait channel closed (so no copy
\* and no newFrameReady can follow).
C11_StopReleasesAll ==
    cpc = "stopped" => (tpc = "dead" /\ ~ring /\ hwait = "closed")

\* the native teardown calls of one Stream.close, in the order of the code
TeardownOrder == <<"dcamwait_abort", "dcamwait_close", "dcambuf_release">>

\* C12 as stated: the ring is released first and the wait channel closed
\* second, so no release follows a close.
C12_ReleaseThenClose ==
    \A i, j \in DOMAIN calls :
        (calls[i] = "dcambuf_release" /\ calls[j] = "dcamwait_close") => i < j

\* C12 amended: the wait channel is aborted and closed first and the ring
\* is released second: the calls made so far are always the beginning of
\* abort, close, release.
C12_CloseThenRelease ==
    \E n \in 0..Len(TeardownOrder) : calls = SubSeq(TeardownOrder, 1, n)
C12_Witness == tpc = "dead" /\ calls = TeardownOrder

\* C13: releasing the ring never raises: a release the library refuses is
\* swallowed, and a second Stream.close() makes no second native release.
C13_ReleaseSwallowed ==
    /\ \A i \in DOMAIN calls : calls[i] # "raise:release"
    /\ Cardinality({i \in DOMAIN calls : calls[i] = "dcambuf_release"}) <= 1
C13_Witness == closing = "done" /\ ring /\ "dcambuf_release" \in Range(calls)

\* C14: a wait that fails for a device fault ends the frame sequence with
\* an error; its result is never handed on and no further wait is issued.
C14_FaultIsFatal == outcome = "FAULT" => (tpc \in Ended /\ err = "DCAMError")

\* C15: a wait that timed out is never reported to the stream as an event
\* value.
C15_TimeoutNotAnEvent == outcome = "TIMEOUT" => tpc # "event"

\* C16 as stated: once nb_frames frames have been emitted the next pull
\* ends the iteration: no further wait is issued.
C16_EndsAtN == Len(emitted) = nb_frames => tpc # "wait"

\* C16 amended: reaching nb_frames does not end the sequence; stream()
\* returns only when a wait has delivered the capture-stopped event.
C16_EndsOnStopped ==
    (gstate = "GEN_CLOSED" /\ err = "none")
        => (Len(wakes) > 0 /\ WEvent(LastWake) = CAP_STOPPED)
C16_Witness ==
    /\ gstate = "GEN_CLOSED"
    /\ err = "none"
    /\ Len(emitted) = nb_frames
    /\ Len(wakes) > nb_frames

\* C17: at any time at most one Acquisition of the Interface holds a
\* Stream (the frame ring and a wait channel of the device).
C17_OneStreamAtATime ==
    Cardinality({i \in DOMAIN acqs : acqs[i].holds}) <= 1

\* C18: once the stream has terminated or has been closed, a further pull
\* returns end-of-iteration: never a frame, never anything else.
C18_NotRestartable ==
    (late /\ tpc = "dead") => pulled = "StopIteration"

\* C19: copying into an array smaller than the frame fails with a size
\* mismatch and leaves every byte of the array as it was.
C19_UndersizedRejected ==
    (cret # "none" /\ cinto.given /\ Len(cinto.data) < FrameBytes(cframe))
        => (cret = "SizeMismatch" /\ \A k \in DOMAIN cinto.data :
                                        cinto.data[k] = "old")

\* C20: a wait on the closed wait channel fails: it hands no event value
\* to the stream.
C20_WaitAfterCloseFails == outcome = "INVALID" => tpc # "event"

\* C21: per device id at most one native handle is open, it is open
\* exactly while the Device holds it, and every native close closed an open
\* handle (so open() on an open device and close() on a closed one make no
\* native call).
C21_OneHandlePerDevice ==
    \A id \in DOMAIN devs :
        /\ devs[id].nopen <= 1
        /\ devs[id].nopen = 1 <=> (devs[id].alive /\ devs[id].handle # "none")
        /\ devs[id].opens - devs[id].closes = devs[id].nopen
        /\ devs[id].last \in {"open:noop", "open", "open:capabilities"}
              => devs[id].nopen = 1
        /\ devs[id].last \in {"close:noop", "close"} => devs[id].nopen = 0
C21_Witness ==
    \E id \in DOMAIN devs :
        /\ devs[id].last = "open:noop"
        /\ devs[id].opens >= 2
        /\ \E other \in DOMAIN devs : devs[other].last = "close:noop"
\* C22: an error of dcamwait_abort or dcamwait_close during teardown goes no
\* further than the teardown, and once the with block is left both the
\* release of the ring and the close of the wait channel have been called.
C22_CloseSuppressed ==
    /\ \A i \in DOMAIN calls : calls[i] \notin {"raise:abort", "raise:close"}
    /\ (tpc = "dead" /\ "dcamwait_abort" \in Range(calls))
           => {"dcamwait_close", "dcambuf_release"} \subseteq Range(calls)

\* C23: once dcamcap_transferinfo or dcambuf_lockframe has failed while
\* streaming, the consumer has got a DCAMError, the generator is over and no
\* frame is emitted after the failure; when the with block has been left
\* both contexts were left: dcambuf_release was called and so was
\* EventStream.close (dcamwait_abort, then dcamwait_close unless the abort
\* itself was refused).
C23_StreamFaultIsFatal ==
    fault[1] \in {"dcamcap_transferinfo", "dcambuf_lockframe"} =>
        /\ err = "DCAMError"
        /\ gstate = "GEN_CLOSED"
        /\ tpc \in {"exit", "dead"}
        /\ Len(emitted) = fault[2]
        /\ tpc = "dead" =>
              /\ context_stack = <<>>
              /\ "dcambuf_release" \in Range(calls)
              /\ "dcamwait_abort" \in Range(calls)
              /\ "raise:abort" \notin Range(calls)
                    => "dcamwait_close" \in Range(calls)

C23_Witness ==
    /\ fault = <<"dcambuf_lockframe", 1>>
    /\ tpc = "dead"
    /\ "dcamwait_close" \in Range(calls)
    /\ "dcambuf_release" \in Range(calls)

\* C24: no event value makes stream() raise, and an event that holds
\* frame-ready (and not capture-stopped) is processed as frame-ready
\* whatever other bits it holds.
C24_OtherBitsIgnored ==
    sbranch # "none" =>
        /\ sbranch \in {"break", "frame_ready", "ignored"}
        /\ (HasBit(sev, CAP_FRAMEREADY) /\ ~HasBit(sev, CAP_STOPPED))
              => sbranch = "frame_ready"

\* C25: while the ring exists, the slot index seen through a frame view
\* emitted earlier is the index of the slot it was emitted for, whatever
\* was emitted after it.
C25_ViewsKeepSlot ==
    ring => \A k \in DOMAIN emitted : FrameView(k) = emitted[k]

\* C26 (as stated): the i-th newFrameReady carries acq_frame_nb i-1 and
\* buffer i-1, and nb_acquired_frames equals the number of newFrameReady
\* calls in every state.
C26_CounterAlwaysEqual ==
    /\ \A i \in DOMAIN delivered :
           delivered[i][1] = i - 1 /\ delivered[i][3] = i - 1
    /\ nb_acquired_frames = Len(delivered)

\* C26: the i-th newFrameReady carries acq_frame_nb i-1 and buffer i-1;
\* nb_acquired_frames equals the number of newFrameReady calls except
\* between a call and the increment that follows it, where it is one behind.
C26_FramesInOrder ==
    /\ \A i \in DOMAIN delivered :
           delivered[i][1] = i - 1 /\ delivered[i][3] = i - 1
    /\ nb_acquired_frames =
           Len(delivered) - (IF tpc = "count" THEN 1 ELSE 0)

C26_Witness ==
    /\ tpc = "count"
    /\ Len(delivered) = 2
    /\ nb_acquired_frames = 1

\* C27: a call through the wrapper raises DCAMError exactly when the value
\* returned, read as a signed 32-bit integer, is negative, and raises
\* nothing otherwise.
C27_RaisesIffNegative ==
    wraised # "none" =>
        IF Signed32Negative(<<wret[1], wret[2]>>)
        THEN wraised = "DCAMError"
        ELSE wraised = "returns"

\* C28: when a snap session has ended on the event capture-stopped, every
\* slot the capture completed has been emitted.
C28_NoFrameLost ==
    (~live /\ tpc = "finish" /\ IsStopped(event) /\ ~capturing)
        => Len(emitted) >= devCount

\* stop() is in its join, the capture is halted, no event of the mask is
\* pending or will be raised, no abort is under way, and neither the event
\* in hand nor the value left in eventhappened is one stream() acts on:
\* every wait ends by its timeout and every event is dropped.
SpinsAfterStop ==
    /\ cpc = "join"
    /\ tpc \in {"wait", "event"}
    /\ ~capturing
    /\ ~aborting
    /\ pend \cap DefaultMask = {}
    /\ ~IsStopped(eventhappened) /\ ~IsFrameReady(eventhappened)
    /\ ~IsStopped(event) /\ ~IsFrameReady(event)

\* no step leaves SpinsAfterStop: the thread never ends, the join never
\* returns
SpinsForever == [][SpinsAfterStop => SpinsAfterStop']_vars

\* C29: after stop() the background thread ends and the join returns: stop()
\* is never left joining a thread that can only wait and drop events.
C29_StopTerminates == ~SpinsAfterStop

\* C30: once stop() has called detector.stop(), no step of the session
\* starts the capture.
C30_NoStartAfterStop ==
    [][(cpc \in {"stop_event", "join", "stopped"} /\ ~capturing)
          => (capturing' = FALSE)]_vars

\* C31: when stop() is called before any start(), the capture is never
\* started and no frame is delivered; stop() returns, and when it has
\* returned the thread is dead, the ring is released, the wait channel is
\* closed and the status is Ready.
C31_StopBeforeStart ==
    /\ [](stopFirst =>
            /\ ~capturing /\ devCount = 0
            /\ emitted = <<>> /\ delivered = <<>>
            /\ cpc = "stopped" =>
                  /\ tpc = "dead"
                  /\ ~ring /\ hwait = "closed"
                  /\ "dcambuf_release" \in Range(calls)
                  /\ status = "Ready")
    /\ (stopFirst ~> cpc = "stopped")

C31_Witness ==
    /\ stopFirst
    /\ cpc = "stopped"
    /\ tpc = "dead"
    /\ ~ring

\* C32: prepareAcq is never left waiting for a thread that has ended
\* without setting prepared, and it returns only when the ring is allocated
\* and the wait channel open.
C32_PrepareReturns ==
    /\ (cpc = "prepare" /\ tpc = "dead") => prepared
    /\ (prepared /\ tpc = "wait_start") => (ring /\ hwait = "open")

\* C33: a ring allocated by the construction of a Stream does not stay
\* allocated when the construction fails after the allocation.
C33_RingNotLeaked ==
    (fault[1] = "dcamwait_open" /\ tpc = "dead") => ~ring

\* C34: when the acquisition thread has ended, the status is Ready.
C34_DeadMeansReady == tpc = "dead" => status = "Ready"

\* C35: in a trigger mode other than IntTrigMult the status is Readout only
\* while a frame is copied and handed over; once the frame is counted the
\* status is Exposure again.
C35_ReadoutOnlyWhileCopying ==
    (trigger_mode # "IntTrigMult" /\ status = "Readout")
        => tpc \in {"copy", "count"}

C37_NoAbortAfterClose ==
    /\ \A i \in DOMAIN es.ncalls :
           (es.ncalls[i][1] = "abort" /\ es.ncalls[i][2] = "hwait")
               => es.ncalls[i][3] = "open"
    /\ Cardinality({i \in DOMAIN es.ncalls : es.ncalls[i][1] = "close"}) <= 1

\* C38: every DCAM.close() leaves the library uninitialised and no cached
\* device open, calls dcam_uninit exactly when the library was initialised,
\* and so makes no native call the second time.
C38_CloseClosesAll ==
    [][dcamlib'.closes # dcamlib.closes =>
          /\ dcamlib'.state = "none"
          /\ \A id \in DOMAIN devs : ~IsOpen(devs'[id].handle)
          /\ dcamlib'.uninits =
                 dcamlib.uninits + (IF dcamlib.state = "init" THEN 1 ELSE 0)
      ]_vars

\* C39: a device that reports is_open() has its capability table built, and
\* a device without a handle has no table.
C39_OpenAllOrNothing ==
    \A id \in DOMAIN devs :
        /\ IsOpen(devs[id].handle) => devs[id].caps = "built"
        /\ devs[id].handle = "none" => devs[id].caps = "none"

====
